---------------------------- MODULE Spec2Model ----------------------------
(***************************************************************************)
(* A model of the processing nodes of filter.rs, noise.rs and              *)
(* oscillator.rs: Biquad and the filters built on it, the MLS and LCG      *)
(* noise generators and the sine oscillator.                               *)
(*                                                                         *)
(* Real numbers (the generic parameters T and F, and f64) are modelled as  *)
(* fixed-point integers with Scale units per 1.0; every product and        *)
(* quotient rounds towards minus infinity.  The 64-bit state of NoiseNode  *)
(* is a little-endian tuple of Limbs digits in base Base, so that the      *)
(* wrapping arithmetic is exact.                                           *)
(***************************************************************************)
EXTENDS Integers, Sequences, FiniteSets

VARIABLES
    node,      \* the instance under study (a record; node.kind names the variant)
    prev,      \* the instance as it was before the last call
    op,        \* the last call: [name |-> "new"|"tick"|"reset"|..., in |-> its argument]
    out,       \* the output frame of the last call (<<>> unless it was a tick)
    steps,     \* number of calls made since construction
    twin,      \* <<>> or <<t>>: t was freshly constructed at the last reset and has
               \* received every call made since
    twinOut,   \* the output frame of the twin's last call
    since,     \* the hash consumed by the last reset and the tick inputs/outputs since
    rate,      \* the sample rate most recently bound, and how
    orbit      \* the Mls states visited so far, the starting state first

vars == <<node, prev, op, out, steps, twin, twinOut, since, rate, orbit>>

-----------------------------------------------------------------------------
(* Bounds and input sets *)

MaxSteps == 3          \* calls per behaviour of the general specifications
MaxSeededSteps == 6    \* calls per behaviour of SpecSeeded
MaxFadeSteps == 6      \* calls per behaviour of SpecDeclicker
MaxNoiseTicks == 250    \* ticks per seed in SpecNoise
MlsMaxBits == 8        \* widest Mls checked over a full period

-----------------------------------------------------------------------------
(* Fixed-point model of the numeric types *)

Scale == 1000
One == Scale
Two == 2 * Scale
Half == Scale \div 2

FMul(a, b) == (a * b) \div Scale
FDiv(a, b) == (a * Scale) \div b
\* T::new(i) / F::new(i): an integer as a real number
FromInt(i) == i * Scale

PI == 3142
TAU == 6283
SQRT_2 == 1414

\* number of terms summed by the power series below
SeriesTerms == 24

RECURSIVE ExpSeries(_, _, _)
ExpSeries(x, term, k) ==
    IF k > SeriesTerms THEN 0
    ELSE term + ExpSeries(x, (term * x) \div (k * Scale), k + 1)

exp(x) == ExpSeries(x, One, 1)

\* sum of term, -term*x^2/((k+1)(k+2)), ... for k = 0 (cos) or k = 1 (sin)
RECURSIVE TrigSeries(_, _, _)
TrigSeries(x2, term, k) ==
    IF k > SeriesTerms THEN 0
    ELSE term + TrigSeries(x2, (0 - term * x2) \div ((k + 1) * (k + 2) * Scale), k + 2)

\* the argument reduced to [-TAU/2, TAU/2)
Reduce(x) == ((x + TAU \div 2) % TAU) - TAU \div 2

sin(x) == LET r == Reduce(x) IN TrigSeries(FMul(r, r), r, 1)
cos(x) == LET r == Reduce(x) IN TrigSeries(FMul(r, r), One, 0)
tan(x) == FDiv(sin(x), cos(x))

\* the largest r with r*r <= x, in fixed point
sqrt(x) == CHOOSE r \in 0..(Scale + x) : r * r <= x * Scale /\ (r + 1) * (r + 1) > x * Scale

\* math::delerp(a, b, x): where x lies between a and b, as a fraction
delerp(a, b, x) == FDiv(x - a, b - a)

\* math::smooth9: the 9th-order smoothstep 126x^5 - 420x^6 + 540x^7 - 315x^8 + 70x^9
smooth9(x) ==
    LET x2 == FMul(x, x)
        x5 == FMul(FMul(x2, x2), x)
        p1 == FMul(FromInt(70), x) - FromInt(315)
        p2 == FMul(p1, x) + FromInt(540)
        p3 == FMul(p2, x) - FromInt(420)
        p4 == FMul(p3, x) + FromInt(126)
    IN  FMul(p4, x5)

\* math::rnd: the fixed mapping of a hash to [0, 1)
rnd(h) == ((h * 5 + 3) % 8) * (Scale \div 8)

\* lib.rs DEFAULT_SR, bound here to a rate the fixed-point precision represents
DEFAULT_SR == 4 * Scale

None == <<>>
Some(x) == <<x>>

-----------------------------------------------------------------------------
(* filter.rs: BiquadCoefs *)

Coefs(a1, a2, b0, b1, b2) == [a1 |-> a1, a2 |-> a2, b0 |-> b0, b1 |-> b1, b2 |-> b2]

butter_lowpass(sample_rate, cutoff) ==
    LET f == tan(FDiv(FMul(cutoff, PI), sample_rate))
        a0r == FDiv(One, One + FMul(SQRT_2, f) + FMul(f, f))
        a1 == FMul(FMul(FMul(Two, f), f) - Two, a0r)
        a2 == FMul(One - FMul(SQRT_2, f) + FMul(f, f), a0r)
        b0 == FMul(FMul(f, f), a0r)
        b1 == FMul(Two, b0)
        b2 == b0
    IN  Coefs(a1, a2, b0, b1, b2)

resonator(sample_rate, center, bandwidth) ==
    LET r == exp(FDiv(FMul(0 - PI, bandwidth), sample_rate))
        a1 == FMul(FMul(0 - Two, r), cos(FDiv(FMul(TAU, center), sample_rate)))
        a2 == FMul(r, r)
        b0 == FMul(sqrt(One - FMul(r, r)), Half)
        b1 == 0
        b2 == 0 - b0
    IN  Coefs(a1, a2, b0, b1, b2)

-----------------------------------------------------------------------------
(* filter.rs: Biquad.  A method that returns a value is an operator giving  *)
(* [self |-> the instance afterwards, out |-> the returned frame].          *)

Ret(self, frame) == [self |-> self, out |-> frame]

Biquad_new ==
    [kind |-> "Biquad", a1 |-> 0, a2 |-> 0, b0 |-> 0, b1 |-> 0, b2 |-> 0,
     x1 |-> 0, x2 |-> 0, y1 |-> 0, y2 |-> 0]

Biquad_set_coefs(self, coefs) ==
    [self EXCEPT !.a1 = coefs.a1, !.a2 = coefs.a2,
                 !.b0 = coefs.b0, !.b1 = coefs.b1, !.b2 = coefs.b2]

\* mutant of Biquad_reset: the whole instance returned to its default
Biquad_reset_default(self, sample_rate) == Biquad_new

Biquad_reset(self, sample_rate) ==
    [self EXCEPT !.x1 = 0, !.x2 = 0, !.y1 = 0, !.y2 = 0]

Biquad_tick(self, input) ==
    LET x0 == input[1]
        y0 == FMul(self.b0, x0) + FMul(self.b1, self.x1) + FMul(self.b2, self.x2)
              - FMul(self.a1, self.y1) - FMul(self.a2, self.y2)
    IN  Ret([self EXCEPT !.x2 = self.x1, !.x1 = x0, !.y2 = self.y1, !.y1 = y0], <<y0>>)

\* the five coefficients of a Biquad
CoefsOf(b) == Coefs(b.a1, b.a2, b.b0, b.b1, b.b2)

-----------------------------------------------------------------------------
(* filter.rs: ButterLowpass *)

ButterLowpass_new(sample_rate) ==
    [kind |-> "ButterLowpass", biquad |-> Biquad_new,
     sample_rate |-> sample_rate, cutoff |-> 0]

ButterLowpass_reset(self, sample_rate) ==
    [self EXCEPT !.biquad = Biquad_reset(self.biquad, sample_rate), !.cutoff = 0]

\* mutant of ButterLowpass_tick: the coefficients recomputed on every tick
ButterLowpass_tick_eager(self, input) ==
    LET cutoff == input[2]
        tuned == [self EXCEPT
                     !.biquad = Biquad_set_coefs(self.biquad,
                                   butter_lowpass(self.sample_rate, cutoff)),
                     !.cutoff = cutoff]
        r == Biquad_tick(tuned.biquad, <<input[1]>>)
    IN  Ret([tuned EXCEPT !.biquad = r.self], r.out)

ButterLowpass_tick(self, input) ==
    LET cutoff == input[2]
        tuned == IF cutoff # self.cutoff
                 THEN [self EXCEPT
                          !.biquad = Biquad_set_coefs(self.biquad,
                                        butter_lowpass(self.sample_rate, cutoff)),
                          !.cutoff = cutoff]
                 ELSE self
        r == Biquad_tick(tuned.biquad, <<input[1]>>)
    IN  Ret([tuned EXCEPT !.biquad = r.self], r.out)

-----------------------------------------------------------------------------
(* filter.rs: Resonator *)

Resonator_new(sample_rate) ==
    [kind |-> "Resonator", biquad |-> Biquad_new,
     sample_rate |-> sample_rate, center |-> 0, bandwidth |-> 0]

Resonator_reset(self, sample_rate) ==
    [self EXCEPT !.biquad = Biquad_reset(self.biquad, sample_rate),
                 !.sample_rate = IF sample_rate # None THEN sample_rate[1] ELSE @,
                 !.center = 0,
                 !.bandwidth = 0]

Resonator_tick(self, input) ==
    LET center == input[2]
        bandwidth == input[3]
        tuned == IF center # self.center \/ bandwidth # self.bandwidth
                 THEN [self EXCEPT
                          !.biquad = Biquad_set_coefs(self.biquad,
                                        resonator(self.sample_rate, center, bandwidth)),
                          !.center = center,
                          !.bandwidth = bandwidth]
                 ELSE self
        r == Biquad_tick(tuned.biquad, <<input[1]>>)
    IN  Ret([tuned EXCEPT !.biquad = r.self], r.out)

-----------------------------------------------------------------------------
(* filter.rs: OnePoleLowpass *)

OnePoleLowpass_new(sample_rate) ==
    [kind |-> "OnePoleLowpass", value |-> 0, coeff |-> 0, cutoff |-> 0,
     sample_rate |-> sample_rate]

OnePoleLowpass_reset(self, sample_rate) ==
    [self EXCEPT !.sample_rate = IF sample_rate # None THEN sample_rate[1] ELSE @,
                 !.cutoff = IF sample_rate # None THEN 0 ELSE @,
                 !.value = 0]

OnePoleLowpass_tick(self, input) ==
    LET cutoff == input[2]
        tuned == IF cutoff # self.cutoff
                 THEN [self EXCEPT
                          !.cutoff = cutoff,
                          !.coeff = exp(FDiv(FMul(0 - TAU, cutoff), self.sample_rate))]
                 ELSE self
        x == input[1]
        value == FMul(One - tuned.coeff, x) + FMul(tuned.coeff, tuned.value)
    IN  Ret([tuned EXCEPT !.value = value], <<value>>)

-----------------------------------------------------------------------------
(* filter.rs: DCBlocker *)

DCBlocker_reset(self, sample_rate) ==
    [self EXCEPT !.coeff = IF sample_rate # None
                           THEN One - FMul(FDiv(TAU, sample_rate[1]), self.cutoff)
                           ELSE @,
                 !.x1 = 0,
                 !.y1 = 0]

DCBlocker_new(sample_rate, cutoff) ==
    DCBlocker_reset([kind |-> "DCBlocker", x1 |-> 0, y1 |-> 0, cutoff |-> cutoff, coeff |-> 0],
                    Some(sample_rate))

DCBlocker_tick(self, input) ==
    LET x == input[1]
        y0 == x - self.x1 + FMul(self.coeff, self.y1)
    IN  Ret([self EXCEPT !.x1 = x, !.y1 = y0], <<y0>>)

-----------------------------------------------------------------------------
(* filter.rs: Declicker *)

Declicker_reset(self, sample_rate) ==
    [self EXCEPT !.sample_duration = IF sample_rate # None
                                     THEN FDiv(One, sample_rate[1])
                                     ELSE @,
                 !.t = 0]

Declicker_new(sample_rate, duration) ==
    Declicker_reset([kind |-> "Declicker", t |-> 0, duration |-> duration,
                     sample_duration |-> 0],
                    Some(sample_rate))

\* mutant of Declicker_tick: t keeps advancing after the fade
Declicker_tick_running(self, input) ==
    IF self.t < self.duration
    THEN LET phase == delerp(0, self.duration, self.t)
             value == smooth9(phase)
         IN  Ret([self EXCEPT !.t = self.t + self.sample_duration],
                 <<FMul(input[1], value)>>)
    ELSE Ret([self EXCEPT !.t = self.t + self.sample_duration], <<input[1]>>)

Declicker_tick(self, input) ==
    IF self.t < self.duration
    THEN LET phase == delerp(0, self.duration, self.t)
             value == smooth9(phase)
         IN  Ret([self EXCEPT !.t = self.t + self.sample_duration],
                 <<FMul(input[1], value)>>)
    ELSE Ret(self, <<input[1]>>)

-----------------------------------------------------------------------------
(* noise.rs: Mls *)

RECURSIVE Pow2(_)
Pow2(n) == IF n = 0 THEN 1 ELSE 2 * Pow2(n - 1)

\* a & b on unsigned integers
RECURSIVE BitAnd(_, _)
BitAnd(a, b) ==
    IF a = 0 \/ b = 0 THEN 0
    ELSE (a % 2) * (b % 2) + 2 * BitAnd(a \div 2, b \div 2)

RECURSIVE count_ones(_)
count_ones(a) == IF a = 0 THEN 0 ELSE (a % 2) + count_ones(a \div 2)

\* the table of feedback masks, written in binary in the source
MLS_POLY ==
    << 1, 3, 6, 12, 20, 48, 72, 184, 272, 576, 1280, 3232, 6912, 12424, 24576,
       53256, 73728, 132096, 405504, 589824, 1310720, 3145728, 4325376, 14745600,
       18874368, 33554467, 67108883, 150994944, 335544320, 536870953, 1207959552 >>

Mls_new(n) == [n |-> n, s |-> Pow2(n) - 1]

Mls_new_with_seed(n, seed) == [n |-> n, s |-> 1 + (seed % (Pow2(n) - 1))]

Mls_length(self) == Pow2(self.n) - 1

\* mutant of Mls_next: the low bit of the feedback instead of its parity
Mls_next_lowbit(self) ==
    LET feedback == BitAnd(MLS_POLY[self.n], self.s)
        parity == feedback % 2
    IN  [n |-> self.n, s |-> (self.s * 2 + parity) % (Mls_length(self) + 1)]

\* (s << 1) | parity has its low bit clear before the or, so the or is a sum;
\* the mask with length() keeps the low n bits
Mls_next(self) ==
    LET feedback == BitAnd(MLS_POLY[self.n], self.s)
        parity == count_ones(feedback) % 2
    IN  [n |-> self.n, s |-> (self.s * 2 + parity) % (Mls_length(self) + 1)]

Mls_value(self) == (self.s \div Pow2(self.n - 1)) % 2

-----------------------------------------------------------------------------
(* noise.rs: MlsNoise *)

MlsNoise_new(mls) == [kind |-> "MlsNoise", mls |-> mls, hash |-> 0]

MlsNoise_reset(self, sample_rate) ==
    [self EXCEPT !.mls = Mls_new_with_seed(self.mls.n, self.hash)]

MlsNoise_tick(self, input) ==
    LET value == FromInt(Mls_value(self.mls))
    IN  Ret([self EXCEPT !.mls = Mls_next(self.mls)], <<FMul(value, FromInt(2)) - FromInt(1)>>)

MlsNoise_set_hash(self, hash) == [self EXCEPT !.hash = hash]

-----------------------------------------------------------------------------
(* noise.rs: NoiseNode.  A u64 is a tuple of Limbs digits in base Base,     *)
(* least significant first.                                                 *)

Base == 256
Limbs == 8

RECURSIVE Digits(_, _)
Digits(v, k) == IF k = 0 THEN <<>> ELSE <<v % Base>> \o Digits(v \div Base, k - 1)

\* hash as u64
U64(v) == Digits(v, Limbs)

\* carries propagated through the columns, the carry out of the top digit dropped
RECURSIVE Propagate(_, _, _)
Propagate(cols, k, carry) ==
    IF k > Limbs THEN <<>>
    ELSE LET v == cols[k] + carry
         IN  <<v % Base>> \o Propagate(cols, k + 1, v \div Base)

RECURSIVE Column(_, _, _, _)
Column(a, b, k, i) == IF i > k THEN 0 ELSE a[i] * b[k - i + 1] + Column(a, b, k, i + 1)

wrapping_mul(a, b) == Propagate([k \in 1..Limbs |-> Column(a, b, k, 1)], 1, 0)

wrapping_add(a, b) == Propagate([k \in 1..Limbs |-> a[k] + b[k]], 1, 0)

\* 6364136223846793005 = 0x5851F42D4C957F2D
LcgMul == <<45, 127, 149, 76, 45, 244, 81, 88>>
\* 1442695040888963407 = 0x14057B7EF767814F
LcgInc == <<79, 129, 103, 247, 126, 123, 5, 20>>

\* x >> 44: the top 20 bits as an integer
Shr44(x) == (x[6] \div 16) + 16 * x[7] + 4096 * x[8]

\* twice the divisor 524287.5 of NoiseNode::tick
NoiseDivisorTimes2 == 1048575

NoiseNode_new == [kind |-> "NoiseNode", x |-> U64(0), hash |-> 0]

\* mutant of NoiseNode_reset: the hash added to the state instead of replacing it
NoiseNode_reset_mixed(self, sample_rate) ==
    [self EXCEPT !.x = wrapping_add(self.x, U64(self.hash))]

NoiseNode_reset(self, sample_rate) == [self EXCEPT !.x = U64(self.hash)]

\* mutant of NoiseNode_tick: the offset of -1 left out
NoiseNode_tick_unsigned(self, input) ==
    LET x == wrapping_add(wrapping_mul(self.x, LcgMul), LcgInc)
        value == (2 * Shr44(x) * Scale) \div NoiseDivisorTimes2
    IN  Ret([self EXCEPT !.x = x], <<value>>)

\* T::new(top) / 524287.5 - 1, the quotient taken as 2 * top / 1048575
NoiseNode_tick(self, input) ==
    LET x == wrapping_add(wrapping_mul(self.x, LcgMul), LcgInc)
        value == (2 * Shr44(x) * Scale) \div NoiseDivisorTimes2 - FromInt(1)
    IN  Ret([self EXCEPT !.x = x], <<value>>)

NoiseNode_set_hash(self, hash) == [self EXCEPT !.hash = hash]

-----------------------------------------------------------------------------
(* oscillator.rs: SineComponent *)

SineComponent_new ==
    [kind |-> "SineComponent", phase |-> 0,
     sample_duration |-> FDiv(One, DEFAULT_SR), hash |-> 0]

SineComponent_reset(self, sample_rate) ==
    [self EXCEPT !.phase = rnd(self.hash),
                 !.sample_duration = IF sample_rate # None
                                     THEN FDiv(One, sample_rate[1])
                                     ELSE @]

SineComponent_tick(self, input) ==
    LET frequency == input[1]
        phase == self.phase + FMul(frequency, self.sample_duration)
    IN  Ret([self EXCEPT !.phase = phase], <<sin(FMul(phase, TAU))>>)

SineComponent_set_hash(self, hash) == [self EXCEPT !.hash = hash]

-----------------------------------------------------------------------------
(* Dynamic dispatch of AudioNode::tick, used to replay a run *)

Tick(n, input) ==
    CASE n.kind = "Biquad" -> Biquad_tick(n, input)
      [] n.kind = "ButterLowpass" -> ButterLowpass_tick(n, input)
      [] n.kind = "Resonator" -> Resonator_tick(n, input)
      [] n.kind = "OnePoleLowpass" -> OnePoleLowpass_tick(n, input)
      [] n.kind = "DCBlocker" -> DCBlocker_tick(n, input)
      [] n.kind = "Declicker" -> Declicker_tick(n, input)
      [] n.kind = "MlsNoise" -> MlsNoise_tick(n, input)
      [] n.kind = "NoiseNode" -> NoiseNode_tick(n, input)
      [] n.kind = "SineComponent" -> SineComponent_tick(n, input)

\* the coefficients as the argument of a recorded set_coefs call
CoefArg(c) == <<c.a1, c.a2, c.b0, c.b1, c.b2>>

\* the output frames of n ticked with each input of ins in turn
RECURSIVE Outputs(_, _)
Outputs(n, ins) ==
    IF ins = <<>> THEN <<>>
    ELSE LET r == Tick(n, Head(ins)) IN <<r.out>> \o Outputs(r.self, Tail(ins))

-----------------------------------------------------------------------------
(* Inputs the calls draw from *)

Rates == {5 * Scale, 8 * Scale}
SampleRates == {None} \cup {Some(sr) : sr \in Rates}
Samples == {0, One}
Cutoffs == {0, One, Two}
Centers == {0, One}
Bandwidths == {0, One}
CoefChoices == {Coefs(0 - One, Half, Half, One, Half), Coefs(Half, 0, One, 0, 0 - One)}
DcCutoffs == {Scale \div 10}
Durations == {0, Scale \div 4, Half}
Frequencies == {0, One}
Hashes == {1, 2}
NoiseBits == {2, 3}
\* 546112 and 953094 are seeds whose first LCG state has its top 20 bits all set
NoiseSeeds == {0, 1, 546112, 953094}

-----------------------------------------------------------------------------
(* The state machine: one instance, constructed in Init, then called.       *)

HasHash(n) == n.kind \in {"MlsNoise", "NoiseNode", "SineComponent"}

\* A freshly constructed instance of n's variant with n's hash identifier and
\* sample rate (r is the rate most recently bound, None if the variant has none).
Fresh(n, r) ==
    CASE n.kind = "Biquad" -> Biquad_new
      [] n.kind = "ButterLowpass" -> ButterLowpass_new(n.sample_rate)
      [] n.kind = "Resonator" -> Resonator_new(n.sample_rate)
      [] n.kind = "OnePoleLowpass" -> OnePoleLowpass_new(n.sample_rate)
      [] n.kind = "DCBlocker" -> DCBlocker_new(r[1], n.cutoff)
      [] n.kind = "Declicker" -> Declicker_new(r[1], n.duration)
      [] n.kind = "MlsNoise" -> MlsNoise_set_hash(MlsNoise_new(Mls_new(n.mls.n)), n.hash)
      [] n.kind = "NoiseNode" -> NoiseNode_set_hash(NoiseNode_new, n.hash)
      [] n.kind = "SineComponent" ->
             [SineComponent_set_hash(SineComponent_new, n.hash)
                 EXCEPT !.sample_duration = n.sample_duration]

Start(n, r) ==
    /\ node = n
    /\ prev = n
    /\ op = [name |-> "new", in |-> <<>>]
    /\ out = <<>>
    /\ steps = 0
    /\ twin = <<>>
    /\ twinOut = <<>>
    /\ since = [reset |-> FALSE, hash |-> 0, ins |-> <<>>, outs |-> <<>>]
    /\ rate = [cur |-> r, byReset |-> FALSE, fixed |-> TRUE]
    /\ orbit = IF n.kind = "MlsNoise" THEN <<n.mls.s>> ELSE <<>>

\* the instance the twin's call is made on (the instance itself stands in
\* when there is no twin, and the result is then dropped)
Twin == IF twin = <<>> THEN node ELSE twin[1]

\* One call on the instance: r is its result [self, out] on node and t its
\* result on Twin.  The twin, when there is one, receives the same call; a
\* reset replaces it by a fresh instance.
Do(limit, name, arg, r, t) ==
    LET
        bound == IF name = "reset" /\ arg # None /\ rate.cur # None
                 THEN [cur |-> arg, byReset |-> TRUE,
                       fixed |-> rate.fixed /\ rate.cur = arg]
                 ELSE rate
    IN  /\ steps < limit
        /\ steps' = steps + 1
        /\ prev' = node
        /\ op' = [name |-> name, in |-> arg]
        /\ node' = r.self
        /\ out' = r.out
        /\ rate' = bound
        /\ twin' = IF name = "reset" THEN <<Fresh(r.self, bound.cur)>>
                   ELSE IF twin = <<>> THEN <<>>
                   ELSE <<t.self>>
        /\ twinOut' = IF name = "reset" \/ twin = <<>> THEN <<>> ELSE t.out
        /\ since' = IF name = "reset"
                    THEN [reset |-> TRUE, hash |-> IF HasHash(node) THEN node.hash ELSE 0,
                          ins |-> <<>>, outs |-> <<>>]
                    ELSE IF name = "tick"
                    THEN [since EXCEPT !.ins = Append(@, arg), !.outs = Append(@, r.out)]
                    ELSE since
        /\ orbit' = IF node.kind # "MlsNoise" THEN orbit
                    ELSE IF name = "reset" THEN <<r.self.mls.s>>
                    ELSE IF name = "tick" THEN Append(orbit, r.self.mls.s)
                    ELSE orbit

BiquadSetCoefs(limit) ==
    /\ node.kind = "Biquad"
    /\ \E c \in CoefChoices :
          Do(limit, "set_coefs", CoefArg(c),
             Ret(Biquad_set_coefs(node, c), <<>>),
             Ret(Biquad_set_coefs(Twin, c), <<>>))

BiquadReset(limit) ==
    /\ node.kind = "Biquad"
    /\ \E sr \in SampleRates :
          Do(limit, "reset", sr,
             Ret(Biquad_reset(node, sr), <<>>),
             Ret(Biquad_reset(Twin, sr), <<>>))

BiquadTick(limit) ==
    /\ node.kind = "Biquad"
    /\ \E x \in Samples :
          Do(limit, "tick", <<x>>,
             Biquad_tick(node, <<x>>),
             Biquad_tick(Twin, <<x>>))

ButterLowpassReset(limit) ==
    /\ node.kind = "ButterLowpass"
    /\ \E sr \in SampleRates :
          Do(limit, "reset", sr,
             Ret(ButterLowpass_reset(node, sr), <<>>),
             Ret(ButterLowpass_reset(Twin, sr), <<>>))

ButterLowpassTick(limit) ==
    /\ node.kind = "ButterLowpass"
    /\ \E x \in Samples, c \in Cutoffs :
          Do(limit, "tick", <<x, c>>,
             ButterLowpass_tick(node, <<x, c>>),
             ButterLowpass_tick(Twin, <<x, c>>))

ResonatorReset(limit) ==
    /\ node.kind = "Resonator"
    /\ \E sr \in SampleRates :
          Do(limit, "reset", sr,
             Ret(Resonator_reset(node, sr), <<>>),
             Ret(Resonator_reset(Twin, sr), <<>>))

ResonatorTick(limit) ==
    /\ node.kind = "Resonator"
    /\ \E x \in Samples, c \in Centers, b \in Bandwidths :
          Do(limit, "tick", <<x, c, b>>,
             Resonator_tick(node, <<x, c, b>>),
             Resonator_tick(Twin, <<x, c, b>>))

OnePoleLowpassReset(limit) ==
    /\ node.kind = "OnePoleLowpass"
    /\ \E sr \in SampleRates :
          Do(limit, "reset", sr,
             Ret(OnePoleLowpass_reset(node, sr), <<>>),
             Ret(OnePoleLowpass_reset(Twin, sr), <<>>))

OnePoleLowpassTick(limit) ==
    /\ node.kind = "OnePoleLowpass"
    /\ \E x \in Samples, c \in Cutoffs :
          Do(limit, "tick", <<x, c>>,
             OnePoleLowpass_tick(node, <<x, c>>),
             OnePoleLowpass_tick(Twin, <<x, c>>))

DCBlockerReset(limit) ==
    /\ node.kind = "DCBlocker"
    /\ \E sr \in SampleRates :
          Do(limit, "reset", sr,
             Ret(DCBlocker_reset(node, sr), <<>>),
             Ret(DCBlocker_reset(Twin, sr), <<>>))

DCBlockerTick(limit) ==
    /\ node.kind = "DCBlocker"
    /\ \E x \in Samples :
          Do(limit, "tick", <<x>>,
             DCBlocker_tick(node, <<x>>),
             DCBlocker_tick(Twin, <<x>>))

DeclickerReset(limit) ==
    /\ node.kind = "Declicker"
    /\ \E sr \in SampleRates :
          Do(limit, "reset", sr,
             Ret(Declicker_reset(node, sr), <<>>),
             Ret(Declicker_reset(Twin, sr), <<>>))

DeclickerTick(limit) ==
    /\ node.kind = "Declicker"
    /\ \E x \in Samples :
          Do(limit, "tick", <<x>>,
             Declicker_tick(node, <<x>>),
             Declicker_tick(Twin, <<x>>))

MlsNoiseReset(limit) ==
    /\ node.kind = "MlsNoise"
    /\ \E sr \in SampleRates :
          Do(limit, "reset", sr,
             Ret(MlsNoise_reset(node, sr), <<>>),
             Ret(MlsNoise_reset(Twin, sr), <<>>))

MlsNoiseTick(limit) ==
    /\ node.kind = "MlsNoise"
    /\ Do(limit, "tick", <<>>,
          MlsNoise_tick(node, <<>>),
          MlsNoise_tick(Twin, <<>>))

MlsNoiseSetHash(limit) ==
    /\ node.kind = "MlsNoise"
    /\ \E h \in Hashes :
          Do(limit, "set_hash", <<h>>,
             Ret(MlsNoise_set_hash(node, h), <<>>),
             Ret(MlsNoise_set_hash(Twin, h), <<>>))

NoiseNodeReset(limit) ==
    /\ node.kind = "NoiseNode"
    /\ \E sr \in SampleRates :
          Do(limit, "reset", sr,
             Ret(NoiseNode_reset(node, sr), <<>>),
             Ret(NoiseNode_reset(Twin, sr), <<>>))

NoiseNodeTick(limit) ==
    /\ node.kind = "NoiseNode"
    /\ Do(limit, "tick", <<>>,
          NoiseNode_tick(node, <<>>),
          NoiseNode_tick(Twin, <<>>))

NoiseNodeSetHash(limit, hashes) ==
    /\ node.kind = "NoiseNode"
    /\ \E h \in hashes :
          Do(limit, "set_hash", <<h>>,
             Ret(NoiseNode_set_hash(node, h), <<>>),
             Ret(NoiseNode_set_hash(Twin, h), <<>>))

SineComponentReset(limit) ==
    /\ node.kind = "SineComponent"
    /\ \E sr \in SampleRates :
          Do(limit, "reset", sr,
             Ret(SineComponent_reset(node, sr), <<>>),
             Ret(SineComponent_reset(Twin, sr), <<>>))

SineComponentTick(limit) ==
    /\ node.kind = "SineComponent"
    /\ \E f \in Frequencies :
          Do(limit, "tick", <<f>>,
             SineComponent_tick(node, <<f>>),
             SineComponent_tick(Twin, <<f>>))

SineComponentSetHash(limit) ==
    /\ node.kind = "SineComponent"
    /\ \E h \in Hashes :
          Do(limit, "set_hash", <<h>>,
             Ret(SineComponent_set_hash(node, h), <<>>),
             Ret(SineComponent_set_hash(Twin, h), <<>>))

-----------------------------------------------------------------------------
(* Specifications *)

InitBiquad == Start(Biquad_new, None)
InitFilters ==
    \E sr \in Rates :
       \/ Start(ButterLowpass_new(sr), Some(sr))
       \/ Start(Resonator_new(sr), Some(sr))
       \/ Start(OnePoleLowpass_new(sr), Some(sr))
InitDCBlocker == \E sr \in Rates, c \in DcCutoffs : Start(DCBlocker_new(sr, c), Some(sr))
InitDeclicker == \E sr \in Rates, d \in Durations : Start(Declicker_new(sr, d), Some(sr))
InitSeeded ==
    \/ \E n \in NoiseBits : Start(MlsNoise_new(Mls_new(n)), None)
    \/ Start(NoiseNode_new, None)
    \/ Start(SineComponent_new, Some(DEFAULT_SR))

NextBiquad(limit) == BiquadSetCoefs(limit) \/ BiquadReset(limit) \/ BiquadTick(limit)
NextFilters(limit) ==
    \/ ButterLowpassReset(limit) \/ ButterLowpassTick(limit)
    \/ ResonatorReset(limit) \/ ResonatorTick(limit)
    \/ OnePoleLowpassReset(limit) \/ OnePoleLowpassTick(limit)
NextDCBlocker(limit) == DCBlockerReset(limit) \/ DCBlockerTick(limit)
NextDeclicker(limit) == DeclickerReset(limit) \/ DeclickerTick(limit)
NextSeeded(limit) ==
    \/ MlsNoiseReset(limit) \/ MlsNoiseTick(limit) \/ MlsNoiseSetHash(limit)
    \/ NoiseNodeReset(limit) \/ NoiseNodeTick(limit) \/ NoiseNodeSetHash(limit, Hashes)
    \/ SineComponentReset(limit) \/ SineComponentTick(limit) \/ SineComponentSetHash(limit)

\* every variant, a few calls each
Init == InitBiquad \/ InitFilters \/ InitDCBlocker \/ InitDeclicker \/ InitSeeded
Next ==
    \/ NextBiquad(MaxSteps) \/ NextFilters(MaxSteps) \/ NextDCBlocker(MaxSteps)
    \/ NextDeclicker(MaxSteps) \/ NextSeeded(MaxSteps)
Spec == Init /\ [][Next]_vars

SpecBiquad == InitBiquad /\ [][NextBiquad(MaxSteps)]_vars

SpecFilters == InitFilters /\ [][NextFilters(MaxSteps)]_vars

SpecDeclicker == InitDeclicker /\ [][NextDeclicker(MaxFadeSteps)]_vars

SpecSeeded == InitSeeded /\ [][NextSeeded(MaxSeededSteps)]_vars

\* an Mls from every nonzero state of every width up to MlsMaxBits, stepped
\* through one full period
InitMls ==
    \E n \in 1..MlsMaxBits : \E seed \in 0..(Pow2(n) - 2) :
       Start(MlsNoise_new(Mls_new_with_seed(n, seed)), None)
NextMls == MlsNoiseTick(Mls_length(node.mls))
SpecMls == InitMls /\ [][NextMls]_vars

\* a NoiseNode seeded by set_hash and reset, then ticked
InitNoise == Start(NoiseNode_new, None)
NextNoise ==
    \/ steps = 0 /\ NoiseNodeSetHash(1, NoiseSeeds)
    \/ steps = 1 /\ NoiseNodeReset(2)
    \/ steps >= 2 /\ NoiseNodeTick(MaxNoiseTicks + 2)
SpecNoise == InitNoise /\ [][NextNoise]_vars

-----------------------------------------------------------------------------
(* Claims *)

IsTick == op.name = "tick"
IsReset == op.name = "reset"

C2_OutputBelowOne ==
    (node.kind = "NoiseNode" /\ IsTick) => (0 - One <= out[1] /\ out[1] < One)

\* C2 as amended: every NoiseNode output v satisfies -1 <= v <= 1.
C2_OutputWithinClosedRange ==
    (node.kind = "NoiseNode" /\ IsTick) => (0 - One <= out[1] /\ out[1] <= One)

\* a seeded NoiseNode has ticked and its output is exactly 1
C2_Witness ==
    /\ node.kind = "NoiseNode"
    /\ IsTick
    /\ since.reset
    /\ since.hash # 0
    /\ out[1] = One

\* C3: after a reset, the instance and a freshly constructed instance with
\* the same hash identifier and sample rate, given the same calls from then
\* on, produce the same output on every tick.
C3_ResetEqualsFresh ==
    (IsTick /\ twin # <<>>) => out = twinOut

\* the coefficient or sample duration the last tick of a rate-dependent
\* variant used, and what the sample rate sr and the tick's inputs derive
UsedConstant(n, p) ==
    CASE n.kind \in {"ButterLowpass", "Resonator"} -> CoefsOf(n.biquad)
      [] n.kind \in {"OnePoleLowpass", "DCBlocker"} -> n.coeff
      [] n.kind \in {"Declicker", "SineComponent"} -> p.sample_duration

DerivedConstant(n, sr, input) ==
    CASE n.kind = "ButterLowpass" -> butter_lowpass(sr, input[2])
      [] n.kind = "Resonator" -> resonator(sr, input[2], input[3])
      [] n.kind = "OnePoleLowpass" -> exp(FDiv(FMul(0 - TAU, input[2]), sr))
      [] n.kind = "DCBlocker" -> One - FMul(FDiv(TAU, sr), n.cutoff)
      [] n.kind \in {"Declicker", "SineComponent"} -> FDiv(One, sr)

RateDependent ==
    {"ButterLowpass", "Resonator", "OnePoleLowpass", "DCBlocker", "Declicker",
     "SineComponent"}

\* C4: once a reset has provided a sample rate, every tick of a
\* rate-dependent variant uses constants derived from the rate most recently
\* provided.
C4_ResetRebindsRate ==
    (IsTick /\ node.kind \in RateDependent /\ rate.byReset)
        => UsedConstant(node, prev) = DerivedConstant(node, rate.cur[1], op.in)

\* C5: a tick of ButterLowpass, Resonator or OnePoleLowpass whose control
\* inputs differ from the cached ones stores the coefficients computed from
\* them and caches them; a tick whose control inputs equal the cached ones
\* leaves the coefficients and the cached controls as they were.
Controls(n) ==
    IF n.kind = "Resonator" THEN <<n.center, n.bandwidth>> ELSE <<n.cutoff>>

C5_LazyRecompute ==
    (IsTick /\ node.kind \in {"ButterLowpass", "Resonator", "OnePoleLowpass"}) =>
        IF Tail(op.in) # Controls(prev)
        THEN /\ UsedConstant(node, prev) = DerivedConstant(prev, prev.sample_rate, op.in)
             /\ Controls(node) = Tail(op.in)
        ELSE /\ UsedConstant(node, prev) = UsedConstant(prev, prev)
             /\ Controls(node) = Controls(prev)

\* a tick repeated the nonzero cutoff that the tick before it had cached
C5_Witness ==
    /\ node.kind = "ButterLowpass"
    /\ IsTick
    /\ Tail(op.in) = Controls(prev)
    /\ prev.cutoff # 0
    /\ CoefsOf(node.biquad) = butter_lowpass(node.sample_rate, node.cutoff)

\* C6: set_hash changes nothing but the recorded hash, and the outputs since
\* the last reset are those of a new instance given the hash that reset
\* consumed, reset with the bound sample rate and ticked with the same inputs.
Reseeded(n, h, sr) ==
    CASE n.kind = "MlsNoise" ->
             MlsNoise_reset(MlsNoise_set_hash(MlsNoise_new(Mls_new(n.mls.n)), h), sr)
      [] n.kind = "NoiseNode" -> NoiseNode_reset(NoiseNode_set_hash(NoiseNode_new, h), sr)
      [] n.kind = "SineComponent" ->
             SineComponent_reset(SineComponent_set_hash(SineComponent_new, h), sr)

C6_SeedDeterminesOutput ==
    HasHash(node) =>
        /\ op.name = "set_hash" => node = [prev EXCEPT !.hash = op.in[1]]
        /\ since.reset => since.outs = Outputs(Reseeded(node, since.hash, rate.cur), since.ins)

\* a NoiseNode that had already ticked was given a hash, reset and ticked twice
C6_Witness ==
    /\ node.kind = "NoiseNode"
    /\ since.reset
    /\ since.hash # 0
    /\ Len(since.outs) = 2
    /\ steps = 5

\* C7 as stated: the first tick after a reset outputs input * 0; a tick at
\* t < duration advances t by sample_duration; a tick at t >= duration
\* returns its input and leaves t alone.
C7_FadeFromZero ==
    (node.kind = "Declicker" /\ IsTick) =>
        /\ Len(since.ins) = 1 => out = <<FMul(op.in[1], 0)>>
        /\ prev.t < prev.duration => node.t = prev.t + prev.sample_duration
        /\ prev.t >= prev.duration => (out = op.in /\ node.t = prev.t)

\* C7 as amended: the first tick after a reset outputs input * 0 when
\* duration > 0; the rest as stated.
C7_FadeFromZeroPositiveDuration ==
    (node.kind = "Declicker" /\ IsTick) =>
        /\ (Len(since.ins) = 1 /\ node.duration > 0) => out = <<FMul(op.in[1], 0)>>
        /\ prev.t < prev.duration => node.t = prev.t + prev.sample_duration
        /\ prev.t >= prev.duration => (out = op.in /\ node.t = prev.t)

\* after a reset the fade has run its course and a nonzero input passed through
C7_Witness ==
    /\ node.kind = "Declicker"
    /\ IsTick
    /\ since.reset
    /\ node.duration > 0
    /\ prev.t >= prev.duration
    /\ op.in[1] # 0
    /\ out = op.in

\* C8: after a reset, with the same frequency f on every tick, tick number k
\* (from 0) outputs sin(2 pi (f k / sr + phi0)), phi0 = rnd(hash) in cycles.
C8_ClosedFormSine ==
    (node.kind = "SineComponent" /\ IsTick /\ since.reset
        /\ \A i \in 1..Len(since.ins) : since.ins[i] = op.in)
    => LET k == Len(since.ins) - 1
           phi0 == rnd(since.hash)
       IN  out[1] = sin(FMul(phi0 + k * FMul(op.in[1], node.sample_duration), TAU))

\* C9: while the sample rate has stayed the one bound at construction, the
\* coefficients a tick of ButterLowpass, Resonator or OnePoleLowpass uses are
\* the coefficient function of the bound sample rate and the tick's controls.
C9_CoefficientsMatchControls ==
    (IsTick /\ node.kind \in {"ButterLowpass", "Resonator", "OnePoleLowpass"} /\ rate.fixed)
        => UsedConstant(node, prev) = DerivedConstant(node, node.sample_rate, op.in)

\* C10: Biquad reset zeroes the four registers and keeps the coefficients;
\* set_coefs stores the five coefficients and keeps the registers; tick
\* shifts the registers and keeps the coefficients.
Registers(b) == <<b.x1, b.x2, b.y1, b.y2>>

C10_BiquadFrames ==
    node.kind = "Biquad" =>
        /\ IsReset => (Registers(node) = <<0, 0, 0, 0>> /\ CoefsOf(node) = CoefsOf(prev))
        /\ op.name = "set_coefs" =>
              (CoefArg(CoefsOf(node)) = op.in /\ Registers(node) = Registers(prev))
        /\ IsTick =>
              /\ CoefsOf(node) = CoefsOf(prev)
              /\ Registers(node) = <<op.in[1], prev.x1, out[1], prev.y1>>

\* a Biquad with coefficients set and registers loaded has just been reset
C10_Witness ==
    /\ node.kind = "Biquad"
    /\ IsReset
    /\ prev.x1 # 0
    /\ prev.y1 # 0
    /\ CoefsOf(node) # CoefsOf(Biquad_new)

=============================================================================
